---- MODULE Spec2Model ----
(***************************************************************************)
(* createRoleQueueConcurrent of the colour-role bot (src/bot.js): K async  *)
(* workers drain one shared queue of role-creation tasks, skip roles that  *)
(* the guild's role cache already holds, retry in place on rate-limit      *)
(* errors and drop a task on any other error.                              *)
(*                                                                         *)
(* JavaScript runs each continuation to completion, so one action is one   *)
(* continuation: everything a worker does between two awaits. Pending      *)
(* create requests and delays complete in any order (timers of different   *)
(* workers are not ordered by their durations), which allows every order   *)
(* the event loop can produce and some it cannot.                          *)
(* guild.roles.create is the discord.js dependency: it answers per task    *)
(* as the script says and, on success, the new role is in the role cache   *)
(* when the await returns. src/unnamed/part_000 is the same function with  *)
(* the colour passed as colors: { primaryColor }.                          *)
(***************************************************************************)
EXTENDS Integers, Sequences, FiniteSets

(* ---------- bounds of the checked inputs ---------- *)
MaxTasks == 2
MaxRL == 1

(* ---------- constants of the program ---------- *)
RateLimitCode == 30010
DefaultWait == 5000
PacingDelay == 300
AddConcurrency == 5

(* JavaScript's undefined / NaN, kept apart from every number the model uses *)
Undef == 0 - 1
NaN == 0 - 2147483647 - 1
NoTask == 0
NoRole == [id |-> 0, name |-> "<none>"]

(* strings are sequences of UTF-16 code units; the ASCII characters the      *)
(* program's texts use are written as characters and turned into code units: *)
(* Upper holds code units 32 to 95, Lower holds code units 97 to 126         *)
Upper ==
    << " ", "!", "\"", "#", "$", "%", "&", "'", "(", ")", "*", "+",
       ",", "-", ".", "/", "0", "1", "2", "3", "4", "5", "6", "7",
       "8", "9", ":", ";", "<", "=", ">", "?", "@", "A", "B", "C",
       "D", "E", "F", "G", "H", "I", "J", "K", "L", "M", "N", "O",
       "P", "Q", "R", "S", "T", "U", "V", "W", "X", "Y", "Z", "[",
       "\\", "]", "^", "_" >>
Lower ==
    << "a", "b", "c", "d", "e", "f", "g", "h", "i", "j", "k", "l",
       "m", "n", "o", "p", "q", "r", "s", "t", "u", "v", "w", "x",
       "y", "z", "{", "|", "}", "~" >>
CodeOf(c) ==
    IF \E i \in 1..Len(Upper) : Upper[i] = c
    THEN 31 + CHOOSE i \in 1..Len(Upper) : Upper[i] = c
    ELSE 96 + CHOOSE i \in 1..Len(Lower) : Lower[i] = c
Str(chars) == [i \in 1..Len(chars) |-> CodeOf(chars[i])]

Hash == CodeOf("#")
Minus == CodeOf("-")
Plus == CodeOf("+")
Zero == CodeOf("0")
RadixMarks == {CodeOf("x"), CodeOf("X")}
Space == CodeOf(" ")

NamePool == <<"Red", "Orange", "Yellow", "Green", "Blue",
              "Indigo", "Violet", "Pink", "Brown", "Gray">>
(* the second colour starts with a vertical tab, which parseInt skips *)
ColorPool == << Str(<<"#", "f", "f", "0", "0", "0", "0">>),
                <<11>> \o Str(<<"0", "0", "F", "F", "0", "0">>),
                Str(<<"#", "1", "a", "2", "b", "3", "c">>),
                Str(<<"#", "0", "x", "1", "F">>),
                Str(<<"#", "a", "b", "c", "x", "y", "z">>) >>

HexDigits == Str(<<"0", "1", "2", "3", "4", "5", "6", "7", "8", "9",
               "a", "b", "c", "d", "e", "f">>)
UpperHex == Str(<<"0", "1", "2", "3", "4", "5", "6", "7", "8", "9",
              "A", "B", "C", "D", "E", "F">>)

IsHex(c) == \E i \in 1..16 : HexDigits[i] = c \/ UpperHex[i] = c
HexVal(c) == (CHOOSE i \in 1..16 : HexDigits[i] = c \/ UpperHex[i] = c) - 1

(* color.replace("#", ""): drops the first "#" only *)
ReplaceHash(s) ==
    IF \E i \in 1..Len(s) : s[i] = Hash
    THEN LET p == CHOOSE i \in 1..Len(s) :
                      s[i] = Hash /\ \A j \in 1..(i - 1) : s[j] # Hash
         IN SubSeq(s, 1, p - 1) \o SubSeq(s, p + 1, Len(s))
    ELSE s

RECURSIVE HexPrefix(_, _, _)
HexPrefix(s, i, acc) ==
    IF i > Len(s) \/ ~IsHex(s[i]) THEN acc
    ELSE HexPrefix(s, i + 1, acc * 16 + HexVal(s[i]))

(* the steps of parseInt(s, 16) before the digits: leading white space is *)
(* skipped, one sign is read, and a 0x or 0X prefix is dropped.            *)
(* ECMAScript's WhiteSpace and LineTerminator code units: tab, line feed,  *)
(* vertical tab, form feed, carriage return, space, no-break space, the    *)
(* Unicode space separators, line and paragraph separator, and U+FEFF      *)
WhiteSpace ==
    {9, 10, 11, 12, 13, 32, 160, 5760, 8232, 8233, 8239, 8287, 12288, 65279}
        \cup (8192..8202)
TrimStart(s) ==
    IF \A i \in 1..Len(s) : s[i] \in WhiteSpace THEN <<>>
    ELSE LET p == CHOOSE i \in 1..Len(s) :
                      s[i] \notin WhiteSpace /\ \A j \in 1..(i - 1) : s[j] \in WhiteSpace
         IN SubSeq(s, p, Len(s))
Sign(s) == IF Len(s) > 0 /\ s[1] = Minus THEN 0 - 1 ELSE 1
DropSign(s) == IF Len(s) > 0 /\ s[1] \in {Plus, Minus} THEN Tail(s) ELSE s
DropRadixPrefix(s) ==
    IF Len(s) >= 2 /\ s[1] = Zero /\ s[2] \in RadixMarks THEN SubSeq(s, 3, Len(s))
    ELSE s

(* parseInt(s, 16): the signed value of the longest prefix of hex digits that *)
(* follows, NaN when there is no digit                                        *)
ParseInt16(s) ==
    CHOOSE v \in { IF Len(d) = 0 \/ ~IsHex(d[1]) THEN NaN
                   ELSE Sign(t) * HexPrefix(d, 1, 0) :
                   <<t, d>> \in { <<u, DropRadixPrefix(DropSign(u))>> :
                                    u \in {TrimStart(s)} } } : TRUE

(* the string without "#" is computed once and then parsed *)
PrimaryColor(color) ==
    CHOOSE v \in {ParseInt16(s) : s \in {ReplaceHash(color)}} : TRUE

(* ---------- errors guild.roles.create can raise ---------- *)
TooManyRequests ==
    Str(<<"T", "o", "o", " ", "M", "a", "n", "y", " ", "R", "e", "q", "u", "e", "s", "t", "s">>)

RateLimitErrors ==
    { [code |-> RateLimitCode, message |-> Str(<<"M", "a", "x", "i", "m", "u", "m", " ", "r", "e", "a", "c", "h", "e", "d">>),
       retryAfter |-> Undef],
      [code |-> Undef, message |-> Str(<<"4", "2", "9", ":", " ", "T", "o", "o", " ", "M", "a", "n", "y", " ", "R", "e", "q", "u", "e", "s", "t", "s", ".">>),
       retryAfter |-> 1000] }
PermanentErrors ==
    { [code |-> 50013, message |->
           Str(<<"M", "i", "s", "s", "i", "n", "g", " ", "P", "e", "r", "m", "i", "s", "s", "i", "o", "n", "s">>),
        retryAfter |-> Undef],
      [code |-> 50035, message |-> Str(<<"T", "o", "o", " ", "M", "a", "n", "y", " ", "R", "o", "l", "e", "s">>),
        retryAfter |-> 2000] }

(* String.prototype.includes on a message kept as a sequence of code units *)
Includes(msg, pat) ==
    \E i \in 1..(Len(msg) - Len(pat) + 1) : SubSeq(msg, i, i + Len(pat) - 1) = pat

IsRateLimitCodeOnly(err) == err.code = RateLimitCode
IsRateLimit(err) ==
    err.code = RateLimitCode \/ Includes(err.message, TooManyRequests)

WaitTime(err) == IF err.retryAfter = Undef THEN DefaultWait ELSE err.retryAfter

VARIABLES
    rolesData,      \* the task list handed to the call: <<[name, color], ...>>
    concurrency,    \* K, the number of workers
    script,         \* per task: how the create dependency answers in the end ("ok",
                    \* "fail", or "never": rate-limited on every call) and how many
                    \* rate-limit errors it may raise before that
    cache0,         \* guild.roles.cache when the call starts
    cache,          \* guild.roles.cache, in insertion order
    nextId,         \* id the server gives the next created role
    queue,          \* the shared queue (task indices into rolesData)
    createdRoles,   \* the result list
    wk,             \* per worker: where its async function is suspended
    started,        \* workers whose async function has been invoked
    outcome,        \* "idle", "pending", "resolved", "rejected"
    claimedBy,      \* history: per task, the workers that shifted it off the queue
    createCalls,    \* history: per task, invocations of guild.roles.create
    rlErrors,       \* history: per task, rate-limit errors create has raised
    permErrors,     \* history: per task, other errors create has raised
    backoffs,       \* history: per task, delay(waitTime) invocations
    delayCalls,     \* history: per task, all delay invocations
    status,         \* history: per task, "pending", "found", "created", "abandoned"
    handleOf,       \* history: per task, the role found or created for it
    msgs,           \* the messages the messageCreate handler is given
    h,              \* per message: where its handler is suspended and what it did
    made,           \* history: per task, roles created for it by all handlers
    picks,          \* the select-menu interactions of one member
    held,           \* member.roles.cache: ids of the roles the member holds
    ih              \* per interaction: where its handler is suspended

vars == <<rolesData, concurrency, script, cache0, cache, nextId, queue,
          createdRoles, wk, started, outcome, claimedBy, createCalls,
          rlErrors, permErrors, backoffs, delayCalls, status, handleOf,
          msgs, h, made, picks, held, ih>>

inputs == <<rolesData, concurrency, script, cache0>>

(* the event handlers' state, which a bare createRoleQueueConcurrent run leaves alone *)
beyond == <<msgs, h, made, picks, held, ih>>

N == Len(rolesData)
Tasks == 1..N
Workers == 1..concurrency

MaxCount == MaxRL + 2
Bump(c) == IF c < MaxCount THEN c + 1 ELSE c

(* guild.roles.cache.find((r) => r.name === name): first match in insertion order *)
HasRole(c, name) == \E i \in 1..Len(c) : c[i].name = name
FindNever(c, name) == NoRole
Find(c, name) ==
    IF HasRole(c, name)
    THEN c[CHOOSE i \in 1..Len(c) :
             c[i].name = name /\ \A j \in 1..(i - 1) : c[j].name # name]
    ELSE NoRole

Idle == [pc |-> "idle", task |-> NoTask, success |-> FALSE, ms |-> 0, color |-> 0]
Exited == [pc |-> "exited", task |-> NoTask, success |-> TRUE, ms |-> 0, color |-> 0]
Rejected(t) == [pc |-> "rejected", task |-> t, success |-> FALSE, ms |-> 0, color |-> 0]
AwaitCreate(t) ==
    [pc |-> "create", task |-> t, success |-> FALSE, ms |-> 0,
     color |-> PrimaryColor(rolesData[t].color)]
AwaitDelay(t, ok, ms) ==
    [pc |-> "delay", task |-> t, success |-> ok, ms |-> ms, color |-> 0]

(* success = true; await delay(300): the pause after a successful create *)
ShortPause(t) == AwaitDelay(t, TRUE, 0)
Pause(t) == AwaitDelay(t, TRUE, PacingDelay)

(* ---------- the create dependency, as scripted per task ---------- *)
(* the answers the create request now in flight for task t can get *)
Answers(t) ==
    IF script[t].final = "never" THEN {"ratelimit"}
    ELSE {script[t].final} \cup
         (IF rlErrors[t] < script[t].limit THEN {"ratelimit"} ELSE {})

(* a thrown value that is no object: reading err.code on it throws a TypeError *)
NullErr == [code |-> Undef, message |-> <<Undef>>, retryAfter |-> Undef]

(* the catch block: "retry" sleeps and tries the same task again, "skip" sets  *)
(* success = true without a role, "throw" is an exception leaving the handler  *)
OnErrorRethrow(err) ==
    IF err = NullErr THEN "throw"
    ELSE IF IsRateLimit(err) THEN "retry" ELSE "throw"
OnErrorNeverRetry(err) == IF err = NullErr THEN "throw" ELSE "skip"
OnErrorAlwaysRetry(err) == IF err = NullErr THEN "throw" ELSE "retry"
OnError(err) ==
    IF err = NullErr THEN "throw"
    ELSE IF IsRateLimit(err) THEN "retry" ELSE "skip"

(* queue.shift(): the element it returns and what it leaves *)
Back(q) == q[Len(q)]
Front(q) == Head(q)
ShiftTwo(q) == IF Len(q) > 1 THEN Tail(Tail(q)) ELSE Tail(q)
Shift(q) == Tail(q)

(* createdRoles.push(role) *)
NoPush(list, role) == list
Push(list, role) == Append(list, role)

(* the synchronous part of a worker, from the test of the outer while loop to  *)
(* its next await or its return; s holds what it reads and writes on the way   *)
RECURSIVE WorkerLoop(_, _)
WorkerLoop(w, s) ==
    IF Len(s.queue) = 0 THEN [s EXCEPT !.me = Exited]
    ELSE LET t == Front(s.queue)
             role == Find(cache, rolesData[t].name)
             s1 == [s EXCEPT !.queue = Shift(s.queue),
                             !.claimedBy[t] = Append(@, w)]
         IN IF role = NoRole
            THEN [s1 EXCEPT !.createCalls[t] = Bump(@), !.me = AwaitCreate(t)]
            ELSE WorkerLoop(w, [s1 EXCEPT !.createdRoles = Push(@, role),
                                          !.status[t] = "found",
                                          !.handleOf[t] = role])

(* worker w goes round the outer loop; st is the task status it starts from *)
Advance(w, st) ==
    \E r \in {WorkerLoop(w, [queue |-> queue, createdRoles |-> createdRoles,
                              status |-> st, handleOf |-> handleOf,
                              claimedBy |-> claimedBy, createCalls |-> createCalls,
                              me |-> wk[w]])} :
       /\ queue' = r.queue
       /\ createdRoles' = r.createdRoles
       /\ status' = r.status
       /\ handleOf' = r.handleOf
       /\ claimedBy' = r.claimedBy
       /\ createCalls' = r.createCalls
       /\ wk' = [wk EXCEPT ![w] = r.me]

(* Promise.all(workers): fulfilled once every worker has returned *)
AnyExited == \E w \in Workers : wk[w].pc = "exited"
AllExited == \A w \in Workers : wk[w].pc = "exited"
SomeRejected == \E w \in Workers : wk[w].pc = "rejected"

(* ---------- inputs ---------- *)
(* task lists up to renaming: names are numbered in order of first appearance *)
Shapes(n) ==
    { s \in [1..n -> 1..MaxTasks] :
        \A i \in 1..n : \A v \in 1..(s[i] - 1) : \E j \in 1..(i - 1) : s[j] = v }

TaskList(s, n) ==
    [i \in 1..n |-> [name |-> NamePool[s[i]],
                     color |-> ColorPool[((i - 1) % Len(ColorPool)) + 1]]]

Everyone == [id |-> 1, name |-> "@everyone"]

(* the role cache holding @everyone and one role for each name index in E *)
CacheOf(E) ==
    LET idxs == SelectSeq([i \in 1..Len(NamePool) |-> i], LAMBDA i : i \in E)
    IN [k \in 1..(Len(idxs) + 1) |->
           IF k = 1 THEN Everyone ELSE [id |-> k, name |-> NamePool[idxs[k - 1]]]]

Behaviours == { [final |-> f, limit |-> MaxRL] : f \in {"ok", "fail", "never"} }
AlwaysOk == [final |-> "ok", limit |-> 0]
OnceLimited == [final |-> "ok", limit |-> 1]

WorkerCounts == {1, 2, AddConcurrency}

BoundedInputs ==
    \E n \in 0..MaxTasks : \E s \in Shapes(n) :
    \E E \in SUBSET {s[i] : i \in 1..n} :
        /\ rolesData = TaskList(s, n)
        /\ cache0 = CacheOf(E)
        /\ concurrency \in WorkerCounts
        /\ script \in [1..n -> Behaviours \cup {AlwaysOk}]
        /\ \A i \in 1..n : script[i] = AlwaysOk <=> s[i] \in E

(* 5 tasks, 2 workers, every create rate-limited once and then succeeding *)
ScenarioRateLimitedOnce ==
    /\ rolesData = TaskList([i \in 1..5 |-> i], 5)
    /\ cache0 = CacheOf({})
    /\ concurrency = 2
    /\ script = [i \in 1..5 |-> OnceLimited]

(* 4 tasks, 2 workers, the second task failing for good *)
ScenarioOneFails ==
    /\ rolesData = TaskList([i \in 1..4 |-> i], 4)
    /\ cache0 = CacheOf({})
    /\ concurrency = 2
    /\ script = [i \in 1..4 |-> IF i = 2 THEN [final |-> "fail", limit |-> 0]
                                         ELSE AlwaysOk]

(* 4 tasks, 2 workers, the first task rate-limited for ever *)
ScenarioOneStuck ==
    /\ rolesData = TaskList([i \in 1..4 |-> i], 4)
    /\ cache0 = CacheOf({})
    /\ concurrency = 2
    /\ script = [i \in 1..4 |-> IF i = 1 THEN [final |-> "never", limit |-> 0]
                                         ELSE AlwaysOk]

(* no createRoleQueueConcurrent call has been made *)
NotCalled ==
    /\ cache = cache0
    /\ nextId = Len(cache0) + 1
    /\ queue = <<>>
    /\ createdRoles = <<>>
    /\ wk = [w \in Workers |-> Idle]
    /\ started = 0
    /\ outcome = "idle"
    /\ claimedBy = [t \in Tasks |-> <<>>]
    /\ createCalls = [t \in Tasks |-> 0]
    /\ rlErrors = [t \in Tasks |-> 0]
    /\ permErrors = [t \in Tasks |-> 0]
    /\ backoffs = [t \in Tasks |-> 0]
    /\ delayCalls = [t \in Tasks |-> 0]
    /\ status = [t \in Tasks |-> "pending"]
    /\ handleOf = [t \in Tasks |-> NoRole]

(* no message and no interaction has been received *)
NoEvents ==
    /\ msgs = <<>> /\ h = <<>> /\ made = <<>>
    /\ picks = <<>> /\ held = {} /\ ih = <<>>

Init ==
    /\ \/ BoundedInputs
       \/ ScenarioRateLimitedOnce
       \/ ScenarioOneFails
       \/ ScenarioOneStuck
    /\ NotCalled
    /\ NoEvents

(* ---------- actions ---------- *)
(* createRoleQueueConcurrent(guild, rolesData, concurrency) is called *)
Call ==
    /\ outcome = "idle"
    /\ outcome' = "pending"
    /\ createdRoles' = <<>>
    /\ queue' = [i \in 1..N |-> i]
    /\ UNCHANGED <<beyond, inputs, cache, nextId, wk, started, claimedBy, createCalls,
                   rlErrors, permErrors, backoffs, delayCalls, status, handleOf>>

(* the map callback invokes the next worker, which runs up to its first await *)
StartWorker(w) ==
    /\ outcome = "pending"
    /\ w = started + 1
    /\ started' = w
    /\ Advance(w, status)
    /\ UNCHANGED <<beyond, inputs, cache, nextId, outcome, rlErrors, permErrors, backoffs, delayCalls>>

(* await guild.roles.create(...) returns a role *)
CreateResolves(w) ==
    /\ outcome = "pending" /\ started = concurrency
    /\ wk[w].pc = "create"
    /\ "ok" \in Answers(wk[w].task)
    /\ LET t == wk[w].task
           role == [id |-> nextId, name |-> rolesData[t].name]
       IN /\ cache' = Append(cache, role)
          /\ nextId' = nextId + 1
          /\ createdRoles' = Push(createdRoles, role)
          /\ status' = [status EXCEPT ![t] = "created"]
          /\ handleOf' = [handleOf EXCEPT ![t] = role]
          /\ delayCalls' = [delayCalls EXCEPT ![t] = Bump(@)]
          /\ wk' = [wk EXCEPT ![w] = Pause(t)]
    /\ UNCHANGED <<beyond, inputs, queue, started, outcome, claimedBy, createCalls,
                   rlErrors, permErrors, backoffs>>

(* await guild.roles.create(...) throws err *)
CreateRejects(w) ==
    /\ outcome = "pending" /\ started = concurrency
    /\ wk[w].pc = "create"
    /\ \E a \in Answers(wk[w].task) \ {"ok"} :
       \E err \in IF a = "ratelimit" THEN RateLimitErrors ELSE PermanentErrors :
         LET t == wk[w].task
             todo == OnError(err)
         IN /\ rlErrors' = [rlErrors EXCEPT ![t] = IF a = "ratelimit" THEN Bump(@) ELSE @]
            /\ permErrors' = [permErrors EXCEPT ![t] = IF a = "fail" THEN Bump(@) ELSE @]
            /\ IF todo = "retry"
               THEN /\ wk' = [wk EXCEPT ![w] = AwaitDelay(t, FALSE, WaitTime(err))]
                    /\ backoffs' = [backoffs EXCEPT ![t] = Bump(@)]
                    /\ delayCalls' = [delayCalls EXCEPT ![t] = Bump(@)]
                    /\ UNCHANGED <<queue, createdRoles, status, handleOf,
                                   claimedBy, createCalls>>
               ELSE IF todo = "skip"
               THEN /\ Advance(w, [status EXCEPT ![t] = "abandoned"])
                    /\ UNCHANGED <<backoffs, delayCalls>>
               ELSE /\ wk' = [wk EXCEPT ![w] = Rejected(t)]
                    /\ UNCHANGED <<queue, createdRoles, status, handleOf,
                                   claimedBy, createCalls, backoffs, delayCalls>>
    /\ UNCHANGED <<beyond, inputs, cache, nextId, started, outcome>>

(* await delay(...) is over: leave the retry loop if success, else try again *)
DelayElapses(w) ==
    /\ outcome = "pending" /\ started = concurrency
    /\ wk[w].pc = "delay"
    /\ IF wk[w].success
       THEN Advance(w, status)
       ELSE /\ wk' = [wk EXCEPT ![w] = AwaitCreate(wk[w].task)]
            /\ createCalls' = [createCalls EXCEPT ![wk[w].task] = Bump(@)]
            /\ UNCHANGED <<queue, createdRoles, status, handleOf, claimedBy>>
    /\ UNCHANGED <<beyond, inputs, cache, nextId, started, outcome, rlErrors, permErrors, backoffs,
                   delayCalls>>

(* await Promise.all(workers) settles and the call returns createdRoles *)
Return ==
    /\ outcome = "pending" /\ started = concurrency
    /\ SomeRejected \/ AllExited
    /\ outcome' = IF SomeRejected THEN "rejected" ELSE "resolved"
    /\ UNCHANGED <<beyond, inputs, cache, nextId, queue, createdRoles, wk, started,
                   claimedBy, createCalls, rlErrors, permErrors, backoffs, delayCalls, status,
                   handleOf>>

Next ==
    \/ Call
    \/ \E w \in Workers : StartWorker(w)
    \/ \E w \in Workers : CreateResolves(w)
    \/ \E w \in Workers : CreateRejects(w)
    \/ \E w \in Workers : DelayElapses(w)
    \/ Return

Spec == Init /\ [][Next]_vars

(* the event loop runs every continuation that is ready: a started call starts *)
(* all its workers, a create request in flight settles, a timer fires, and the *)
(* settled Promise.all resumes the caller                                      *)
Step(w) ==
    StartWorker(w) \/ CreateResolves(w) \/ CreateRejects(w) \/ DelayElapses(w)

Fairness ==
    /\ WF_vars(Call)
    /\ \A w \in 1..AddConcurrency : WF_vars(w \in Workers /\ Step(w))
    /\ WF_vars(Return)

(* task lists of distinct names, any of them already a role *)
DistinctInputs ==
    \E n \in 0..MaxTasks : \E E \in SUBSET (1..n) :
        /\ rolesData = TaskList([i \in 1..n |-> i], n)
        /\ cache0 = CacheOf(E)
        /\ concurrency \in WorkerCounts
        /\ script \in [1..n -> Behaviours \cup {AlwaysOk}]
        /\ \A i \in 1..n : script[i] = AlwaysOk <=> i \in E

FairInit ==
    /\ DistinctInputs \/ ScenarioOneStuck
    /\ NotCalled
    /\ NoEvents

FairSpec == FairInit /\ [][Next]_vars /\ Fairness

TypeOK ==
    /\ outcome \in {"idle", "pending", "resolved", "rejected"}
    /\ started \in 0..concurrency
    /\ \A w \in Workers : wk[w].pc \in {"idle", "create", "delay", "exited", "rejected"}
    /\ \A t \in Tasks : status[t] \in {"pending", "found", "created", "abandoned"}

(* ---------- vocabulary of the properties ---------- *)
NameOf(t) == rolesData[t].name
DistinctNames == \A t \in Tasks : \A u \in Tasks : t # u => NameOf(t) # NameOf(u)
Preexisting(t) == HasRole(cache0, NameOf(t))
Resolved == outcome = "resolved"
InQueue(t) == Cardinality({i \in 1..Len(queue) : queue[i] = t})
Count(list, x) == Cardinality({i \in 1..Len(list) : list[i] = x})
Finished(t) == status[t] \in {"found", "created", "abandoned"}

RECURSIVE SumTo(_, _)
SumTo(f, n) == IF n = 0 THEN 0 ELSE f[n] + SumTo(f, n - 1)

(* C1: once the call has copied the task list, every task is either still in  *)
(* the queue, once, or has been shifted off it exactly once, by one worker:   *)
(* no task is claimed by two workers or twice by one, and none is lost.       *)
C1_ClaimedExactlyOnce ==
    outcome # "idle" =>
        \A t \in Tasks :
            /\ InQueue(t) + Len(claimedBy[t]) = 1
            /\ (Resolved => Len(claimedBy[t]) = 1)

C1_Witness ==
    \E t \in Tasks : \E u \in Tasks :
        /\ claimedBy[t] = <<1>> /\ claimedBy[u] = <<2>>
        /\ wk[1].pc = "delay" /\ wk[2].pc = "create"

(* C2 as stated: with no task's name in the role cache at the call, a resolved *)
(* run has issued a create request for every task and each task was claimed    *)
(* by one worker.                                                              *)
C2_AllCreatedWhenNonePreexisting ==
    (Resolved /\ \A t \in Tasks : ~Preexisting(t)) =>
        \A t \in Tasks : createCalls[t] >= 1 /\ Len(claimedBy[t]) = 1

(* C2, amended: the same for task lists whose names are pairwise distinct. *)
C2_AllCreatedWhenDistinct ==
    (Resolved /\ DistinctNames /\ \A t \in Tasks : ~Preexisting(t)) =>
        \A t \in Tasks : createCalls[t] >= 1 /\ Len(claimedBy[t]) = 1

C2_Witness ==
    /\ Resolved /\ DistinctNames /\ N = MaxTasks /\ concurrency > 1
    /\ \A t \in Tasks : ~Preexisting(t) /\ createCalls[t] >= 1
    /\ \E t \in Tasks : claimedBy[t] = <<2>>

(* C3: for a task whose name is in the role cache at the call, create is never *)
(* invoked; once the task is claimed the cached role is recorded in the result *)
(* and the claiming worker is not held on that task.                           *)
C3_ExistingNeverCreated ==
    \A t \in Tasks :
        Preexisting(t) =>
            /\ createCalls[t] = 0
            /\ status[t] \in {"pending", "found"}
            /\ Len(claimedBy[t]) = 1 =>
                  /\ status[t] = "found"
                  /\ handleOf[t] = Find(cache0, NameOf(t))
                  /\ Count(createdRoles, handleOf[t]) >= 1
                  /\ \A w \in Workers : wk[w].task # t

C3_Witness ==
    \E t \in Tasks : \E u \in Tasks :
        /\ Preexisting(t) /\ status[t] = "found"
        /\ u # t /\ claimedBy[u] = claimedBy[t]
        /\ \E w \in Workers : wk[w].task = u /\ wk[w].pc = "create"

Owner(t) == claimedBy[t][1]
Pushed == Cardinality({t \in Tasks : status[t] \in {"found", "created"}})

(* C4 as stated: a task whose create raised a non-rate-limit error has had *)
(* create invoked exactly once.                                            *)
C4_FailedTaskCreatedOnce ==
    \A t \in Tasks : permErrors[t] >= 1 => createCalls[t] = 1

(* C4, amended: a task whose create raised a non-rate-limit error has had      *)
(* create invoked once for each rate-limit error before it and once more, and  *)
(* never after that error; it is abandoned with no handle in the result; its   *)
(* worker is not held on it and has gone on to the queue (a worker only exits  *)
(* on an empty queue); no worker and not the call is stopped by the failure.   *)
C4_FailedTaskAbandoned ==
    /\ \A t \in Tasks :
          permErrors[t] >= 1 =>
              /\ permErrors[t] = 1
              /\ createCalls[t] = rlErrors[t] + 1
              /\ status[t] = "abandoned"
              /\ handleOf[t] = NoRole
              /\ \A w \in Workers : wk[w].task # t
              /\ wk[Owner(t)].pc \in {"create", "delay", "exited"}
    /\ Len(createdRoles) = Pushed
    /\ \A w \in Workers : wk[w].pc # "rejected"
    /\ \A w \in Workers : wk[w].pc = "exited" => queue = <<>>
    /\ outcome # "rejected"

(* the owner of a failed task has claimed a later task while another worker *)
(* is still busy with its own                                               *)
C4_Witness ==
    \E t \in Tasks : \E u \in Tasks : \E v \in Tasks :
        /\ permErrors[t] = 1 /\ status[t] = "abandoned"
        /\ u # t /\ claimedBy[u] = claimedBy[t] /\ wk[Owner(t)].task = u
        /\ claimedBy[v] # <<>> /\ Owner(v) # Owner(t)
        /\ wk[Owner(v)].task = v /\ wk[Owner(v)].pc = "delay"

IsScenarioRateLimitedOnce ==
    /\ N = 5 /\ concurrency = 2
    /\ \A t \in Tasks : script[t] = OnceLimited /\ ~Preexisting(t)

(* C5 as stated: a task created after M rate-limit errors has had exactly M *)
(* delay invocations; the scenario run ends with 5 roles and 5 delays.      *)
C5_SleepsEqualRateLimits ==
    /\ \A t \in Tasks : status[t] = "created" => delayCalls[t] = rlErrors[t]
    /\ (Resolved /\ IsScenarioRateLimitedOnce /\ \A t \in Tasks : rlErrors[t] = 1) =>
           Len(createdRoles) = 5 /\ SumTo(delayCalls, N) = 5

(* C5, amended: a task created after M rate-limit errors has had M + 1 create *)
(* calls, exactly M delay(waitTime) invocations and one more delay, the       *)
(* delay(300) after its success (M + 1 delay invocations in all), and its     *)
(* handle is in the result once for that task; the scenario run ends with 5   *)
(* roles, 5 rate-limit sleeps and 10 delay invocations.                       *)
C5_SleepsPerCreatedTask ==
    /\ \A t \in Tasks :
          status[t] = "created" =>
              /\ createCalls[t] = rlErrors[t] + 1
              /\ backoffs[t] = rlErrors[t]
              /\ delayCalls[t] = rlErrors[t] + 1
              /\ permErrors[t] = 0
              /\ Count(createdRoles, handleOf[t])
                    = Cardinality({u \in Tasks : handleOf[u] = handleOf[t]})
              /\ Cardinality({u \in Tasks : status[u] = "created"
                                             /\ handleOf[u] = handleOf[t]}) = 1
    /\ (Resolved /\ IsScenarioRateLimitedOnce /\ \A t \in Tasks : rlErrors[t] = 1) =>
           /\ Len(createdRoles) = 5
           /\ SumTo(backoffs, N) = 5
           /\ SumTo(delayCalls, N) = 10

C5_Witness ==
    /\ Resolved /\ IsScenarioRateLimitedOnce
    /\ \A t \in Tasks : rlErrors[t] = 1 /\ status[t] = "created"

(* C6: a claimed task stays its worker's current task, in the retry loop, until *)
(* it has succeeded or raised a non-rate-limit error, so the worker claims no   *)
(* other task meanwhile; a rate-limit error never abandons a task: only a       *)
(* non-rate-limit error does, and every rate-limit error is followed by a sleep *)
(* and another create call; a task whose create is always rate-limited stays in *)
(* the retry loop for good and the call never resolves.                         *)
C6_RetryInPlaceUncapped ==
    \A t \in Tasks :
        /\ (claimedBy[t] # <<>> /\ ~Finished(t)) =>
              /\ wk[Owner(t)].task = t
              /\ wk[Owner(t)].pc \in {"create", "delay"}
              /\ ~wk[Owner(t)].success
        /\ status[t] = "abandoned" => permErrors[t] >= 1
        /\ backoffs[t] = rlErrors[t]
        /\ (permErrors[t] = 0 /\ createCalls[t] < MaxCount) =>
              createCalls[t] \in {rlErrors[t], rlErrors[t] + 1}
        /\ (script[t].final = "never" /\ createCalls[t] >= 1) =>
              /\ ~Finished(t)
              /\ ~Resolved

(* a task rate-limited on every call has been retried up to the counter's cap *)
(* while its worker's peer has already exited                                 *)
C6_Witness ==
    \E t \in Tasks :
        /\ script[t].final = "never"
        /\ createCalls[t] = MaxCount /\ rlErrors[t] = MaxCount
        /\ wk[Owner(t)].pc = "delay"
        /\ \E w \in Workers : wk[w].pc = "exited"

Abandoned == {t \in Tasks : permErrors[t] >= 1}

(* C7: the returned list holds, for each task found in the cache or created in *)
(* this run, that task's handle, as often as tasks have that handle, and an    *)
(* entry for no other task; its length is N minus the number of tasks whose    *)
(* create failed for good; with nothing cached and nothing failing that is N   *)
(* entries from N creating tasks and no skip.                                  *)
C7_ResultIsFoundPlusCreated ==
    Resolved =>
        /\ \A t \in Tasks : Finished(t)
        /\ \A t \in Tasks : status[t] = "abandoned" <=> t \in Abandoned
        /\ \A t \in Tasks :
              status[t] # "abandoned" =>
                  /\ handleOf[t] # NoRole
                  /\ handleOf[t].name = NameOf(t)
                  /\ Count(createdRoles, handleOf[t])
                        = Cardinality({u \in Tasks : handleOf[u] = handleOf[t]})
        /\ \A i \in 1..Len(createdRoles) :
              \E t \in Tasks : status[t] # "abandoned" /\ handleOf[t] = createdRoles[i]
        /\ \A t \in Tasks : status[t] = "found" <=>
              (createCalls[t] = 0 /\ Count(cache, handleOf[t]) = 1)
        /\ Len(createdRoles) = N - Cardinality(Abandoned)
        /\ (Abandoned = {} /\ DistinctNames /\ \A t \in Tasks : ~Preexisting(t)) =>
              /\ Len(createdRoles) = N
              /\ \A t \in Tasks : status[t] = "created" /\ createCalls[t] >= 1

C7_Witness ==
    /\ Resolved /\ concurrency > 1
    /\ \E t \in Tasks : status[t] = "abandoned"
    /\ \E t \in Tasks : status[t] = "created"
    /\ Len(createdRoles) = N - 1

(* the run of the code with one worker, as a function of the inputs: the     *)
(* length of the list it returns, Undef when it never returns                *)
RECURSIVE SeqRun(_, _, _)
SeqRun(i, names, size) ==
    IF i > N THEN size
    ELSE IF NameOf(i) \in names THEN SeqRun(i + 1, names, size + 1)
    ELSE IF script[i].final = "never" THEN Undef
    ELSE IF script[i].final = "ok"
         THEN SeqRun(i + 1, names \cup {NameOf(i)}, size + 1)
         ELSE SeqRun(i + 1, names, size)

SeqRunSize == SeqRun(1, {cache0[i].name : i \in 1..Len(cache0)}, 0)

(* C8: a run with 1 worker and a run with 5 workers on the same task list, the *)
(* same cache and the same answers of create return lists of the same length,  *)
(* whatever the interleaving of the 5 workers.                                 *)
C8_SameSizeForOneAndFiveWorkers ==
    (Resolved /\ concurrency \in {1, AddConcurrency} /\ SeqRunSize # Undef) =>
        Len(createdRoles) = SeqRunSize

(* the same for task lists with pairwise distinct names, and any worker count *)
SameSizeWhenDistinct ==
    (Resolved /\ DistinctNames) =>
        SeqRunSize # Undef /\ Len(createdRoles) = SeqRunSize

(* C9: the call resolves only with the queue empty, every worker returned, no  *)
(* create request or delay pending and every task finished; while any worker   *)
(* has not returned the call is still pending, whatever the others have done.  *)
C9_ResolvesOnlyWhenDrained ==
    /\ Resolved =>
          /\ queue = <<>>
          /\ \A w \in Workers : wk[w] = Exited
          /\ \A t \in Tasks : Finished(t) /\ Len(claimedBy[t]) = 1
    /\ (\E w \in Workers : wk[w].pc # "exited") => ~Resolved

(* one worker found the queue empty and exited while another is still retrying *)
WorkerExitsWhilePeerRetries ==
    /\ outcome = "pending"
    /\ \E w \in Workers : wk[w].pc = "exited"
    /\ \E w \in Workers : wk[w].pc = "delay" /\ ~wk[w].success

C9_Witness ==
    /\ Resolved /\ concurrency > 1 /\ N > 1
    /\ \E t \in Tasks : rlErrors[t] >= 1 /\ Owner(t) = 2

(* C10: whatever errors create raises, no worker's promise rejects and the call *)
(* never rejects; when it completes it has resolved with the result list, which *)
(* is shorter by one entry for each task that failed for good.                  *)
C10_NeverRejects ==
    /\ outcome # "rejected"
    /\ \A w \in Workers : wk[w].pc # "rejected"
    /\ outcome # "pending" /\ outcome # "idle" =>
          Resolved /\ Len(createdRoles) = N - Cardinality(Abandoned)

C10_Witness ==
    /\ Resolved
    /\ \E t \in Tasks : permErrors[t] >= 1
    /\ \E t \in Tasks : rlErrors[t] >= 1
    /\ Len(createdRoles) < N

(* worker w shifts a task off the queue in this step *)
Dequeues(w) ==
    \E u \in Tasks : Len(claimedBy'[u]) > Len(claimedBy[u])
                     /\ claimedBy'[u][Len(claimedBy'[u])] = w

(* C11: the step in which a create succeeds leaves the queue alone and puts   *)
(* the worker into delay(300); a worker whose current task has been created   *)
(* moves on (to its next dequeue or to its return) only in the step that      *)
(* completes that delay.                                                      *)
C11_PacingBeforeNextClaim ==
    [][\A w \in Workers : \A t \in Tasks :
          /\ (status[t] # "created" /\ status'[t] = "created" /\ wk[w].task = t) =>
                /\ queue' = queue /\ ~Dequeues(w)
                /\ wk'[w].pc = "delay" /\ wk'[w].ms = PacingDelay /\ wk'[w].task = t
          /\ (status[t] = "created" /\ wk[w].task = t /\ wk'[w] # wk[w]) =>
                wk[w].pc = "delay" /\ wk[w].success /\ wk[w].ms = PacingDelay
      ]_vars

(* a worker has claimed its next task after the pause that followed a success *)
C11_Witness ==
    \E t \in Tasks : \E u \in Tasks :
        /\ status[t] = "created" /\ u # t
        /\ claimedBy[t] # <<>> /\ claimedBy[u] = claimedBy[t]
        /\ wk[Owner(t)].task = u /\ wk[Owner(t)].pc = "create"
        /\ delayCalls[t] = rlErrors[t] + 1

(* no task is rate-limited for ever *)
FinitelyLimited == \A t \in Tasks : script[t].final # "never"

(* C12: once createRoleQueueConcurrent has been called with tasks that each   *)
(* raise a rate-limit error only finitely often, the call eventually resolves *)
(* when every create request settles and every ready continuation is run.     *)
C12_EventuallyResolves ==
    (outcome = "pending" /\ FinitelyLimited) ~> Resolved

(* a call that resolved after rate-limit errors and a permanent failure *)
C12_Witness ==
    /\ Resolved /\ FinitelyLimited /\ N >= 2
    /\ \E t \in Tasks : rlErrors[t] >= 1 /\ status[t] = "created"
    /\ \E t \in Tasks : permErrors[t] >= 1

(* the tasks whose create is rate-limited for ever *)
Stuck == {t \in Tasks : script[t].final = "never"}

(* C13: with two or more workers and exactly one task rate-limited for ever,  *)
(* every other task is eventually claimed and finished.                       *)
C13_OthersStillFinish ==
    (outcome = "pending" /\ concurrency >= 2 /\ Cardinality(Stuck) = 1)
        ~> (\A t \in Tasks \ Stuck : claimedBy[t] # <<>> /\ Finished(t))

(* one worker sleeps on the stuck task after repeated rate-limit errors while *)
(* the tasks queued behind it have been finished by another worker            *)
C13_Witness ==
    /\ concurrency >= 2 /\ N >= 3
    /\ \E t \in Stuck :
         /\ Stuck = {t} /\ claimedBy[t] # <<>>
         /\ wk[Owner(t)].pc = "delay" /\ rlErrors[t] >= 2
         /\ \A u \in Tasks \ {t} : Finished(u) /\ Owner(u) # Owner(t)
         /\ \E u \in Tasks : u > t /\ status[u] = "created"

(* the tasks worker w has shifted off the queue and not yet finished *)
InProgress(w) ==
    {t \in Tasks : ~Finished(t) /\ \E i \in 1..Len(claimedBy[t]) : claimedBy[t][i] = w}
InFlight == {w \in Workers : wk[w].pc = "create"}
Min(a, b) == IF a < b THEN a ELSE b

(* C14: during a run each worker holds at most one claimed and unfinished     *)
(* task, which is the task it is suspended on; at most min(K, N) create       *)
(* requests are in flight; queued + in progress + finished tasks number N.    *)
C14_BoundedConcurrency ==
    outcome # "idle" =>
        /\ \A w \in Workers :
              /\ Cardinality(InProgress(w)) <= 1
              /\ InProgress(w) \subseteq {wk[w].task}
              /\ wk[w].pc \in {"create", "delay"} => wk[w].task \in Tasks
        /\ Cardinality(InFlight) <= Min(concurrency, N)
        /\ Len(queue) + Cardinality(UNION {InProgress(w) : w \in Workers})
             + Cardinality({t \in Tasks : Finished(t)}) = N
        /\ \A t \in Tasks : InQueue(t) = 1 => claimedBy[t] = <<>>

(* both workers of a two-worker run have a create in flight while tasks are   *)
(* still queued and others are finished                                       *)
C14_Witness ==
    /\ concurrency = 2 /\ N >= 4
    /\ Cardinality(InFlight) = 2
    /\ Len(queue) >= 1
    /\ \E t \in Tasks : Finished(t)
    /\ Cardinality(UNION {InProgress(w) : w \in Workers}) = 2

(* ---------- the messageCreate handler ---------- *)
(* message texts are sequences of code units *)
CmdPrefix == Str(<<"!", "e", "p", "i", "c", "-", "r", "o", "l", "e", "s">>)
Add == Str(<<"a", "d", "d">>)
Remove == Str(<<"r", "e", "m", "o", "v", "e">>)
Dropdown == Str(<<"d", "r", "o", "p", "d", "o", "w", "n">>)
MenuSize == 25

(* args[i] of a missing element *)
NoArg == <<Undef>>

(* content.startsWith(p) *)
StartsWith(str, p) == Len(str) >= Len(p) /\ SubSeq(str, 1, Len(p)) = p

(* content.split(sep): the pieces between separators, empty pieces included *)
RECURSIVE Split(_, _)
Split(str, sep) ==
    IF \A i \in 1..Len(str) : str[i] # sep THEN <<str>>
    ELSE LET i == CHOOSE j \in 1..Len(str) :
                      str[j] = sep /\ \A l \in 1..(j - 1) : str[l] # sep
         IN <<SubSeq(str, 1, i - 1)>> \o Split(SubSeq(str, i + 1, Len(str)), sep)

(* .slice(1) and reading an element, by JavaScript's index *)
Slice1(a) == IF Len(a) = 0 THEN <<>> ELSE Tail(a)
ArgAt(args, i) == IF i + 1 <= Len(args) THEN args[i + 1] ELSE NoArg
Falsy(v) == v = NoArg \/ v = <<>>

(* chunkArray(arr, size) *)
CeilDiv(a, b) == (a + b - 1) \div b
Slice(arr, from, to) ==
    SubSeq(arr, from + 1, IF to < Len(arr) THEN to ELSE Len(arr))
ChunkArray(arr, size) ==
    [c \in 1..CeilDiv(Len(arr), size) |->
        Slice(arr, (c - 1) * size, (c - 1) * size + size)]

(* message.member.permissions.has(Administrator) *)
PermittedAlways(m) == TRUE
Permitted(m) == m.admin

Words(a, b) == a \o Str(<<" ">>) \o b
Contents ==
    << Words(CmdPrefix, Add), Words(CmdPrefix, Remove),
       Words(Words(CmdPrefix, Dropdown), Str(<<"7">>)), Words(CmdPrefix, Dropdown),
       Words(CmdPrefix \o Str(<<" ">>), Add), Str(<<"h", "i">>) >>
(* each text from an administrator and from another member *)
Messages ==
    [j \in 1..(2 * Len(Contents)) |->
        [content |-> Contents[((j - 1) % Len(Contents)) + 1],
         admin |-> j <= Len(Contents)]]
Handlers == DOMAIN msgs

(* the state of one createRoleQueueConcurrent call made by a handler *)
FreshRun ==
    [queue |-> [i \in 1..N |-> i], createdRoles |-> <<>>,
     wk |-> [w \in Workers |-> Idle],
     status |-> [t \in Tasks |-> "pending"],
     handleOf |-> [t \in Tasks |-> NoRole],
     claimedBy |-> [t \in Tasks |-> <<>>],
     createCalls |-> [t \in Tasks |-> 0]]

NewHandler ==
    [pc |-> "new", run |-> FreshRun, at |-> 0, target |-> 0, removed |-> 0,
     chunks |-> <<>>, deletes |-> 0, menus |-> 0, replies |-> <<>>]

(* message.reply(...) as the last thing a handler does *)
Reply(hk, kind, n) ==
    [hk EXCEPT !.pc = "done", !.replies = Append(@, [kind |-> kind, n |-> n])]

(* worker w of a handler's run goes round the outer loop *)
RunAfter(run, w, st) ==
    LET r == WorkerLoop(w, [queue |-> run.queue, createdRoles |-> run.createdRoles,
                            status |-> st, handleOf |-> run.handleOf,
                            claimedBy |-> run.claimedBy,
                            createCalls |-> run.createCalls, me |-> run.wk[w]])
    IN [queue |-> r.queue, createdRoles |-> r.createdRoles, status |-> r.status,
        handleOf |-> r.handleOf, claimedBy |-> r.claimedBy,
        createCalls |-> r.createCalls, wk |-> [run.wk EXCEPT ![w] = r.me]]

(* Array.from({ length: concurrency }).map(async () => ...): workers w, w+1, *)
(* ... are invoked in turn and each runs up to its first await               *)
RECURSIVE StartAll(_, _)
StartAll(run, w) ==
    IF w > concurrency THEN run ELSE StartAll(RunAfter(run, w, run.status), w + 1)

(* the remove loop from index i on, reading role cache c: up to the next     *)
(* await role.delete() or, past the last name, the reply                     *)
RECURSIVE RemoveLoop(_, _, _)
RemoveLoop(hk, c, i) ==
    IF i > N
    THEN Reply(hk, IF hk.removed > 0 THEN "removed" ELSE "none to remove", hk.removed)
    ELSE IF HasRole(c, rolesData[i].name)
    THEN [hk EXCEPT !.pc = "remove", !.at = i,
                    !.target = Find(c, rolesData[i].name).id, !.deletes = @ + 1]
    ELSE RemoveLoop(hk, c, i + 1)

(* the dropdown loop from chunk i on (JavaScript's index): the next          *)
(* targetChannel.send or, past the last chunk, the reply                     *)
SendLoop(hk, i) ==
    IF i < Len(hk.chunks)
    THEN [hk EXCEPT !.pc = "send", !.at = i, !.menus = @ + 1]
    ELSE Reply(hk, "menus created", Len(hk.chunks))

(* rolesData.map(...).filter((r) => r.role): the tasks whose role is cached *)
EnrichedRoles(c) ==
    SelectSeq([i \in 1..N |-> i], LAMBDA i : HasRole(c, rolesData[i].name))

(* the handler from its start to its first await or its return *)
OnMessage(m, hk) ==
    IF ~StartsWith(m.content, CmdPrefix) THEN [hk EXCEPT !.pc = "done"]
    ELSE IF ~Permitted(m) THEN Reply(hk, "need administrator", 0)
    ELSE LET args == Slice1(Split(m.content, Space))
             subCommand == ArgAt(args, 0)
         IN IF subCommand = Add
            THEN [hk EXCEPT !.pc = "add", !.run = StartAll(FreshRun, 1)]
            ELSE IF subCommand = Remove THEN RemoveLoop(hk, cache, 1)
            ELSE IF subCommand = Dropdown
            THEN IF Falsy(ArgAt(args, 1)) THEN Reply(hk, "no channel id", 0)
                 ELSE [hk EXCEPT !.pc = "fetch"]
            ELSE [hk EXCEPT !.pc = "done"]

(* what the message handlers leave alone: the variables of a bare run and of *)
(* the select-menu handlers                                                  *)
aside == <<inputs, msgs, queue, createdRoles, wk, started, outcome, claimedBy,
           createCalls, backoffs, delayCalls, status, handleOf, picks, held, ih>>

(* a messageCreate event: the handler runs up to its first await *)
Receive(k) ==
    /\ h[k].pc = "new"
    /\ h' = [h EXCEPT ![k] = OnMessage(msgs[k], h[k])]
    /\ UNCHANGED <<aside, cache, nextId, made, rlErrors, permErrors>>

(* await guild.roles.create(...) returns a role to worker w of handler k *)
CreateResolvesIn(k, w) ==
    /\ h[k].pc = "add"
    /\ h[k].run.wk[w].pc = "create"
    /\ "ok" \in Answers(h[k].run.wk[w].task)
    /\ LET t == h[k].run.wk[w].task
           role == [id |-> nextId, name |-> rolesData[t].name]
       IN /\ cache' = Append(cache, role)
          /\ nextId' = nextId + 1
          /\ made' = [made EXCEPT ![t] = @ + 1]
          /\ h' = [h EXCEPT ![k].run =
                      [@ EXCEPT !.createdRoles = Push(@, role),
                                !.status[t] = "created",
                                !.handleOf[t] = role,
                                !.wk[w] = Pause(t)]]
    /\ UNCHANGED <<aside, rlErrors, permErrors>>

(* await guild.roles.create(...) throws err in worker w of handler k *)
CreateRejectsIn(k, w) ==
    /\ h[k].pc = "add"
    /\ h[k].run.wk[w].pc = "create"
    /\ \E a \in Answers(h[k].run.wk[w].task) \ {"ok"} :
       \E err \in IF a = "ratelimit" THEN RateLimitErrors ELSE PermanentErrors :
         LET t == h[k].run.wk[w].task
             todo == OnError(err)
             run == h[k].run
         IN /\ rlErrors' = [rlErrors EXCEPT ![t] = IF a = "ratelimit" THEN Bump(@) ELSE @]
            /\ permErrors' = [permErrors EXCEPT ![t] = IF a = "fail" THEN Bump(@) ELSE @]
            /\ h' = [h EXCEPT ![k].run =
                        IF todo = "retry"
                        THEN [run EXCEPT !.wk[w] = AwaitDelay(t, FALSE, WaitTime(err))]
                        ELSE IF todo = "skip"
                        THEN RunAfter(run, w, [run.status EXCEPT ![t] = "abandoned"])
                        ELSE [run EXCEPT !.wk[w] = Rejected(t)]]
    /\ UNCHANGED <<aside, cache, nextId, made>>

(* await delay(...) is over in worker w of handler k *)
DelayElapsesIn(k, w) ==
    /\ h[k].pc = "add"
    /\ h[k].run.wk[w].pc = "delay"
    /\ LET run == h[k].run
           t == run.wk[w].task
       IN h' = [h EXCEPT ![k].run =
                   IF run.wk[w].success
                   THEN RunAfter(run, w, run.status)
                   ELSE [run EXCEPT !.wk[w] = AwaitCreate(t),
                                    !.createCalls[t] = Bump(@)]]
    /\ UNCHANGED <<aside, cache, nextId, made, rlErrors, permErrors>>

(* await createRoleQueueConcurrent(...) returns to handler k, which replies *)
AddReturns(k) ==
    /\ h[k].pc = "add"
    /\ LET pcs == {h[k].run.wk[w].pc : w \in Workers}
       IN /\ "rejected" \in pcs \/ pcs \subseteq {"exited"}
          /\ h' = [h EXCEPT ![k] =
                      IF "rejected" \in pcs THEN [@ EXCEPT !.pc = "threw"]
                      ELSE Reply(@, "added", Len(h[k].run.createdRoles))]
    /\ UNCHANGED <<aside, cache, nextId, made, rlErrors, permErrors>>

(* await role.delete().catch(() => null) is over: the role is gone from the *)
(* cache if the request succeeded; the loop goes on with the next name      *)
DeleteDone(k) ==
    /\ h[k].pc = "remove"
    /\ \E ok \in BOOLEAN :
         LET c == IF ok THEN SelectSeq(cache, LAMBDA r : r.id # h[k].target)
                        ELSE cache
         IN /\ cache' = c
            /\ h' = [h EXCEPT ![k] =
                        RemoveLoop([@ EXCEPT !.removed = @ + 1], c, h[k].at + 1)]
    /\ UNCHANGED <<aside, nextId, made, rlErrors, permErrors>>

(* await channels.fetch(channelId).catch(() => null) is over *)
FetchDone(k) ==
    /\ h[k].pc = "fetch"
    /\ \E targetChannel \in BOOLEAN :
         h' = [h EXCEPT ![k] =
                  IF ~targetChannel THEN Reply(@, "invalid channel id", 0)
                  ELSE SendLoop([@ EXCEPT !.chunks =
                                     ChunkArray(EnrichedRoles(cache), MenuSize)], 0)]
    /\ UNCHANGED <<aside, cache, nextId, made, rlErrors, permErrors>>

(* await targetChannel.send(...) is over, or throws out of the handler *)
SendDone(k) ==
    /\ h[k].pc = "send"
    /\ \E ok \in BOOLEAN :
         h' = [h EXCEPT ![k] = IF ok THEN SendLoop(@, h[k].at + 1)
                                     ELSE [@ EXCEPT !.pc = "threw"]]
    /\ UNCHANGED <<aside, cache, nextId, made, rlErrors, permErrors>>

(* the guild's role list: one task per name, the first e of them already   *)
(* roles; two messages, which the handler treats alike whatever their order; *)
(* creates all succeed, all fail, or the first is rate-limited once          *)
InitBot ==
    /\ rolesData = TaskList([i \in 1..MaxTasks |-> i], MaxTasks)
    /\ \E e \in 0..MaxTasks : cache0 = CacheOf(1..e)
    /\ concurrency = AddConcurrency
    /\ \E b \in {AlwaysOk, OnceLimited, [final |-> "fail", limit |-> 0]} :
          script = [t \in 1..MaxTasks |->
                       IF b = OnceLimited /\ t > 1 THEN AlwaysOk ELSE b]
    /\ NotCalled
    /\ \E a \in DOMAIN Messages : \E b \in DOMAIN Messages :
          a <= b /\ msgs = <<Messages[a], Messages[b]>>
    /\ h = [k \in 1..2 |-> NewHandler]
    /\ made = [t \in Tasks |-> 0]
    /\ picks = <<>> /\ held = {} /\ ih = <<>>

NextBot ==
    \/ \E k \in Handlers : Receive(k)
    \/ \E k \in Handlers : \E w \in Workers : CreateResolvesIn(k, w)
    \/ \E k \in Handlers : \E w \in Workers : CreateRejectsIn(k, w)
    \/ \E k \in Handlers : \E w \in Workers : DelayElapsesIn(k, w)
    \/ \E k \in Handlers : AddReturns(k)
    \/ \E k \in Handlers : DeleteDone(k)
    \/ \E k \in Handlers : FetchDone(k)
    \/ \E k \in Handlers : SendDone(k)

SpecBot == InitBot /\ [][NextBot]_vars

(* message k is "!epic-roles add" from an administrator *)
IsAdminAdd(k) == msgs[k].admin /\ msgs[k].content = Words(CmdPrefix, Add)
(* message k starts with "!epic-roles" and its author is no administrator *)
IsDenied(k) == StartsWith(msgs[k].content, CmdPrefix) /\ ~msgs[k].admin
(* handler k has issued no create, delete or send request *)
Harmless(k) ==
    /\ \A t \in Tasks : h[k].run.createCalls[t] = 0
    /\ h[k].run.createdRoles = <<>>
    /\ h[k].deletes = 0 /\ h[k].menus = 0

(* C15: when both messages are "!epic-roles add" from administrators, no     *)
(* name of the role list is created more than once by the two runs together. *)
C15_NoNameCreatedTwice ==
    (\A k \in Handlers : IsAdminAdd(k)) => \A t \in Tasks : made[t] <= 1

(* C17: the handler of a "!epic-roles" message from a non-administrator      *)
(* issues no create, delete or send request; it returns at once with the     *)
(* permission reply as its only reply; when every message is of that kind or *)
(* no command at all, the role cache stays as it was.                        *)
C17_NonAdminOnlyDenied ==
    /\ \A k \in Handlers : IsDenied(k) =>
          /\ Harmless(k)
          /\ h[k].pc \in {"new", "done"}
          /\ h[k].replies = IF h[k].pc = "new" THEN <<>>
                            ELSE <<[kind |-> "need administrator", n |-> 0]>>
    /\ (\A k \in Handlers : IsDenied(k) \/ ~StartsWith(msgs[k].content, CmdPrefix))
          => cache = cache0 /\ nextId = Len(cache0) + 1 /\ \A t \in Tasks : made[t] = 0

(* non-administrators have sent add, remove or dropdown with roles to remove *)
(* and to list in the cache, and both handlers have returned                 *)
C17_Witness ==
    /\ Handlers # {}
    /\ \A k \in Handlers : IsDenied(k) /\ h[k].pc = "done"
    /\ \E k \in Handlers :
          msgs[k].content \in {Words(CmdPrefix, Remove),
                               Words(Words(CmdPrefix, Dropdown), Str(<<"7">>))}
    /\ \E k \in Handlers : msgs[k].content = Words(CmdPrefix, Add)
    /\ Len(cache) = MaxTasks + 1

(* ---------- the interactionCreate handler ---------- *)
MenuIdPrefix == Str(<<"c", "o", "l", "o", "r", "R", "o", "l", "e", "s", "_">>)
NoValue == 0

(* rolesData.map((r) => cache.find(...)?.id).filter(Boolean) *)
ColorRoleIds(c) ==
    LET found == SelectSeq([i \in 1..N |-> i], LAMBDA i : HasRole(c, rolesData[i].name))
    IN [j \in 1..Len(found) |-> Find(c, rolesData[found[j]].name).id]

(* the id of a role that was deleted after the menu listing it was posted *)
GoneRole == Len(cache0) + 1

Interactions ==
    [select : BOOLEAN, customId : {MenuIdPrefix \o Str(<<"0">>), Str(<<"x">>)},
     value : {NoValue, GoneRole} \cup {cache0[j].id : j \in 2..Len(cache0)}]
Pickers == DOMAIN picks

NewPicker == [pc |-> "new", ids |-> <<>>, at |-> 0, end |-> 0, reply |-> "none"]

(* interaction.reply(...) as the last thing a handler does; end numbers the *)
(* handlers in the order they finish                                        *)
Finish(p, text, others) ==
    [p EXCEPT !.pc = "done", !.reply = text,
              !.end = 1 + Cardinality({o \in others : o.pc = "done"})]

(* guild.roles.cache.get(id) finds a role *)
HasId(c, id) == \E j \in 1..Len(c) : c[j].id = id

(* the removal loop from position j on, reading the member's roles mr: up to *)
(* the next await member.roles.remove; past the loop, a selection reads the  *)
(* name of the chosen role, which throws when the guild has no such role,    *)
(* and awaits member.roles.add; an empty selection replies                   *)
RECURSIVE PickLoop(_, _, _, _, _)
PickLoop(p, value, mr, j, others) ==
    IF j > Len(p.ids)
    THEN IF value # NoValue
         THEN IF HasId(cache, value) THEN [p EXCEPT !.pc = "adding"]
              ELSE [p EXCEPT !.pc = "threw"]
         ELSE Finish(p, "removed", others)
    ELSE IF p.ids[j] \in mr THEN [p EXCEPT !.pc = "removing", !.at = j]
    ELSE PickLoop(p, value, mr, j + 1, others)

OthersOf(i) == {ih[o] : o \in Pickers \ {i}}

(* what the select-menu handlers leave alone *)
apart == <<inputs, cache, nextId, queue, createdRoles, wk, started, outcome,
           claimedBy, createCalls, rlErrors, permErrors, backoffs, delayCalls,
           status, handleOf, msgs, h, made, picks>>

(* an interactionCreate event: the handler runs up to its first await *)
Interact(i) ==
    /\ ih[i].pc = "new"
    /\ ih' = [ih EXCEPT ![i] =
                 IF ~picks[i].select \/ ~StartsWith(picks[i].customId, MenuIdPrefix)
                 THEN [@ EXCEPT !.pc = "ignored"]
                 ELSE PickLoop([@ EXCEPT !.ids = ColorRoleIds(cache)],
                               picks[i].value, held, 1, OthersOf(i))]
    /\ UNCHANGED <<apart, held>>

(* await member.roles.remove(roleId) is over, or throws out of the handler *)
RemoveRoleDone(i) ==
    /\ ih[i].pc = "removing"
    /\ \E ok \in BOOLEAN :
         IF ok
         THEN /\ held' = held \ {ih[i].ids[ih[i].at]}
              /\ ih' = [ih EXCEPT ![i] =
                           PickLoop(@, picks[i].value, held', ih[i].at + 1, OthersOf(i))]
         ELSE /\ ih' = [ih EXCEPT ![i].pc = "threw"]
              /\ held' = held
    /\ UNCHANGED apart

(* await member.roles.add(newRoleId) is over, or throws out of the handler *)
AddRoleDone(i) ==
    /\ ih[i].pc = "adding"
    /\ \E ok \in BOOLEAN :
         IF ok
         THEN /\ held' = held \cup {picks[i].value}
              /\ ih' = [ih EXCEPT ![i] = Finish(@, "you now have", OthersOf(i))]
         ELSE /\ ih' = [ih EXCEPT ![i].pc = "threw"]
              /\ held' = held
    /\ UNCHANGED apart

(* every role of the list exists; the member holds @everyone and at most one *)
(* colour role; three interactions are pending                              *)
InitMenu ==
    /\ rolesData = TaskList([i \in 1..MaxTasks |-> i], MaxTasks)
    /\ cache0 = CacheOf(1..MaxTasks)
    /\ concurrency = AddConcurrency
    /\ script = [t \in 1..MaxTasks |-> AlwaysOk]
    /\ NotCalled
    /\ msgs = <<>> /\ h = <<>> /\ made = <<>>
    /\ picks \in [1..3 -> Interactions]
    /\ \E own \in SUBSET {cache0[j].id : j \in 2..Len(cache0)} :
          Cardinality(own) <= 1 /\ held = {Everyone.id} \cup own
    /\ ih = [i \in 1..3 |-> NewPicker]

NextMenu ==
    \/ \E i \in Pickers : Interact(i)
    \/ \E i \in Pickers : RemoveRoleDone(i)
    \/ \E i \in Pickers : AddRoleDone(i)

SpecMenu == InitMenu /\ [][NextMenu]_vars

ColourIds == {cache[j].id : j \in 2..Len(cache)}
Menus == {i \in Pickers : ih[i].pc # "ignored"}
LastHandled == CHOOSE i \in Menus : \A o \in Menus : ih[o].end <= ih[i].end

(* C16: once every select-menu interaction has been handled, the member      *)
(* holds no colour role but the one chosen in the interaction handled last,  *)
(* and holds that one if one was chosen.                                     *)
C16_OneColourRole ==
    (Menus # {} /\ \A i \in Menus : ih[i].pc = "done") =>
        held \cap ColourIds = {picks[LastHandled].value} \ {NoValue}
====
